---- MODULE Spec2Model ----
(***************************************************************************)
(* Verification model of bwalign (NabilHKhoury/bwalign): the FM-index      *)
(* (suffix array, BWT, first occurrences, checkpoints, partial suffix      *)
(* array), backward search and position recovery, the seed generator, the  *)
(* banded and affine alignment engines and the seed-extension driver.      *)
(*                                                                         *)
(* Strings are sequences of one-character strings.  Indices, suffix-array  *)
(* values, rows and reference positions keep Python's 0-based values; the  *)
(* operators At/PySlice convert when a sequence is read.                   *)
(***************************************************************************)
EXTENDS Integers, Sequences, FiniteSets, TLC

VARIABLES pc, ref, stride, index, pattern, interval, idxes,
          read, klen, seeds, scoring, best, cigar,
          s, t, banded, traced, affine

vars == <<pc, ref, stride, index, pattern, interval, idxes,
          read, klen, seeds, scoring, best, cigar,
          s, t, banded, traced, affine>>

(***************************************************************************)
(* Bounds of the model.                                                    *)
(***************************************************************************)
MaxRefLen == 6
MaxStride == 3
MaxPatLen == 3

(***************************************************************************)
(* Characters.  Ord is Python's ord() on the characters the model uses.    *)
(***************************************************************************)
Sentinel == "$"
Alphabet == {"A", "C"}
Foreign == "X"
CharUniverse == {"$", "A", "C", "G", "T", "X"}

Ord(c) ==
    CASE c = "$" -> 36
      [] c = "A" -> 65
      [] c = "C" -> 67
      [] c = "G" -> 71
      [] c = "T" -> 84
      [] c = "X" -> 88

\* ord('a'), subtracted by get_rank
OrdLowerA == 97

\* the stride C = 5 of compute_checkpoint_arrs and bw_better_match_pattern
CheckpointStride == 5

\* float('-inf'): below every score the bounded model can produce
NegInf == -1000000

(***************************************************************************)
(* Python sequence semantics.                                              *)
(***************************************************************************)
Min2(a, b) == IF a < b THEN a ELSE b
Max2(a, b) == IF a > b THEN a ELSE b
Abs(x) == IF x < 0 THEN 0 - x ELSE x

\* seq[i] for a valid non-negative index
At(seq, i) == seq[i + 1]

\* seq[i] with Python's wrap of a negative index (text[idx-1] with idx = 0)
PyIndex(seq, i) == IF i < 0 THEN seq[Len(seq) + i + 1] ELSE seq[i + 1]

\* Python's normalisation of one slice bound
PyBound(n, a) == IF a < 0 THEN Max2(a + n, 0) ELSE Min2(a, n)

\* mutant of PySlice: seq[a:b+1]
PySliceOneMore(seq, a, b) ==
    LET lo == PyBound(Len(seq), a)
        hi == PyBound(Len(seq), b + 1)
    IN  IF hi <= lo THEN <<>> ELSE SubSeq(seq, lo + 1, hi)

\* seq[a:b]
PySlice(seq, a, b) ==
    LET lo == PyBound(Len(seq), a)
        hi == PyBound(Len(seq), b)
    IN  IF hi <= lo THEN <<>> ELSE SubSeq(seq, lo + 1, hi)

\* mutant of Repeat: one character short
RepeatOneShort(c, k) == [x \in 1..(k - 1) |-> c]

\* c * k for a one-character string c
Repeat(c, k) == [x \in 1..k |-> c]

\* all strings over alphabet A of length lo..hi
Strings(A, lo, hi) == UNION {[1..len -> A] : len \in lo..hi}

(***************************************************************************)
(* Suffix array by prefix doubling.  A suffix object is a record           *)
(* [index, r0, r1] with r0 = rank[0] and r1 = rank[1].                     *)
(***************************************************************************)
get_rank(c) == Ord(c) - OrdLowerA

\* mutant of KeyLess: the sort key is element.rank[0] alone
KeyLessFirstRankOnly(a, b) == a.r0 < b.r0

\* the sort key (element.rank[0], element.rank[1])
KeyLess(a, b) == a.r0 < b.r0 \/ (a.r0 = b.r0 /\ a.r1 < b.r1)

RECURSIVE InsertSorted(_, _)
InsertSorted(done, x) ==
    IF done = <<>> THEN <<x>>
    ELSE IF KeyLess(x, Head(done)) THEN <<x>> \o done
    ELSE <<Head(done)>> \o InsertSorted(Tail(done), x)

\* sorted(suffixes, key = ...): Python's sort is stable
RECURSIVE SortedByRank(_)
SortedByRank(seq) ==
    IF seq = <<>> THEN <<>>
    ELSE InsertSorted(SortedByRank(SubSeq(seq, 1, Len(seq) - 1)), seq[Len(seq)])

\* the initial (k = 2) ranking of the suffixes
InitialSuffixes(text) ==
    [x \in 1..Len(text) |->
        [index |-> x - 1,
         r0 |-> get_rank(text[x]),
         r1 |-> IF x < Len(text) THEN get_rank(text[x + 1]) ELSE -1]]

\* "Assigning rank to suffixes": the loop over i in range(1, len(text))
RECURSIVE AssignRanks(_, _, _, _, _)
AssignRanks(suf, ind, i, prev_rank, rank) ==
    IF i >= Len(suf) THEN [suf |-> suf, ind |-> ind]
    ELSE LET cur == At(suf, i)
             same == cur.r0 = prev_rank /\ cur.r1 = At(suf, i - 1).r1
             newrank == IF same THEN rank ELSE rank + 1
         IN  AssignRanks([suf EXCEPT ![i + 1].r0 = newrank],
                         [ind EXCEPT ![cur.index] = i],
                         i + 1, cur.r0, newrank)

\* rank and index of the first suffix, then the loop
RankPass(suf) ==
    LET ind0 == [x \in 0..(Len(suf) - 1) |-> 0]
        first == At(suf, 0)
    IN  AssignRanks([suf EXCEPT ![1].r0 = 0],
                    [ind0 EXCEPT ![first.index] = 0],
                    1, first.r0, 0)

\* "Assign next rank to every suffix"
NextPass(suf, ind, k) ==
    [x \in 1..Len(suf) |->
        LET nextindex == suf[x].index + (k \div 2)
        IN  [suf[x] EXCEPT !.r1 = IF nextindex < Len(suf)
                                  THEN At(suf, ind[nextindex]).r0
                                  ELSE -1]]

\* while (k < 2 * len(text)): rank, next rank, sort, k *= 2
RECURSIVE Doubling(_, _)
Doubling(suf, k) ==
    IF k < 2 * Len(suf)
    THEN LET ranked == RankPass(suf)
         IN  Doubling(SortedByRank(NextPass(ranked.suf, ranked.ind, k)), 2 * k)
    ELSE suf

suffix_array(text) ==
    LET final == Doubling(SortedByRank(InitialSuffixes(text)), 4)
    IN  [x \in 1..Len(text) |-> final[x].index]

(***************************************************************************)
(* BWT and the FM auxiliaries.  A Python dict is a function whose domain   *)
(* is the set of keys.                                                     *)
(***************************************************************************)
bwt_from_suffix_array(text, sa) ==
    [x \in 1..Len(sa) |-> PyIndex(text, sa[x] - 1)]

\* partial[idx] = sa[idx] for idx in sa if sa[idx] % k == 0
RECURSIVE PartialLoop(_, _, _, _)
PartialLoop(sa, k, x, partial) ==
    IF x > Len(sa) THEN partial
    ELSE LET idx == sa[x]
         IN  IF At(sa, idx) % k = 0
             THEN PartialLoop(sa, k, x + 1,
                      [key \in DOMAIN partial \cup {idx} |->
                          IF key = idx THEN At(sa, idx) ELSE partial[key]])
             ELSE PartialLoop(sa, k, x + 1, partial)

\* mutant of partial_suffix_array: the sampled value is kept under itself
partial_suffix_array_by_value(sa, k) ==
    [key \in {sa[x] : x \in {y \in 1..Len(sa) : sa[y] % k = 0}} |-> key]

partial_suffix_array(sa, k) == PartialLoop(sa, k, 1, <<>>)

\* mutant of compute_rank_arr: the count leaves out bwt[i] itself
compute_rank_arr_exclusive(bwt) ==
    [x \in 1..Len(bwt) |-> Cardinality({y \in 1..(x - 1) : bwt[y] = bwt[x]})]

\* rank[i] = occurrences of bwt[i] in bwt[0..i]
compute_rank_arr(bwt) ==
    [x \in 1..Len(bwt) |-> Cardinality({y \in 1..x : bwt[y] = bwt[x]})]

\* the code points of the model's characters, in the order range(0, 256) meets them
RECURSIVE OrderedChars(_)
OrderedChars(cs) ==
    IF cs = {} THEN <<>>
    ELSE LET c == CHOOSE a \in cs : \A b \in cs : Ord(a) <= Ord(b)
         IN  <<c>> \o OrderedChars(cs \ {c})

\* the scan "for i in range(0,256)": C[chr(i)] = curr_idx when counts[i] != 0
RECURSIVE FirstOccLoop(_, _, _, _)
FirstOccLoop(bwt, order, curr_idx, C) ==
    IF order = <<>> THEN C
    ELSE LET c == Head(order)
             count == Cardinality({y \in 1..Len(bwt) : bwt[y] = c})
         IN  FirstOccLoop(bwt, Tail(order), curr_idx + count,
                          IF count # 0 THEN [C EXCEPT ![c] = curr_idx] ELSE C)

compute_first_occurrences(bwt) ==
    LET present == {bwt[y] : y \in 1..Len(bwt)}
    IN  FirstOccLoop(bwt, OrderedChars(CharUniverse), 0, [c \in present |-> 0])

\* ranks[i] = copy of the running count vector, for i % C == 0
compute_checkpoint_arrs(bwt) ==
    [i \in {j \in 0..(Len(bwt) - 1) : j % CheckpointStride = 0} |->
        [c \in CharUniverse |-> Cardinality({y \in 1..(i + 1) : bwt[y] = c})]]

\* mutant of compute_rank: the rescan starts at the checkpoint itself
compute_rank_rescan_checkpoint(bwt, idx, ranks, symbol, C) ==
    LET idx_dist_from_chkpnt == idx % C
        base == ranks[idx - idx_dist_from_chkpnt][symbol]
    IN  base + Cardinality({j \in (idx - idx_dist_from_chkpnt)..idx :
                                At(bwt, j) = symbol})

\* occurrences of symbol in bwt[0..idx], from the checkpoint below idx
compute_rank(bwt, idx, ranks, symbol, C) ==
    LET idx_dist_from_chkpnt == idx % C
        base == ranks[idx - idx_dist_from_chkpnt][symbol]
    IN  base + Cardinality({j \in (idx - idx_dist_from_chkpnt + 1)..idx :
                                At(bwt, j) = symbol})

(***************************************************************************)
(* Backward search and position recovery.                                  *)
(***************************************************************************)
\* a result of bw_better_match_pattern: the tuple (lo, hi), or an exception
Interval(lo, hi) == [lo |-> lo, hi |-> hi, raised |-> FALSE]
Raised == [lo |-> 0, hi |-> 0, raised |-> TRUE]

\* the loop "for i in range(len(pattern) - 1, -1, -1)"; compute_rank raises
\* KeyError or IndexError exactly when its idx is no row of bwt
RECURSIVE MatchLoop(_, _, _, _, _, _, _)
MatchLoop(bwt, pat, first_occurrences, ranks, i, top, bot) ==
    IF i < 0 THEN Interval(top, bot + 1)
    ELSE LET symbol == At(pat, i)
             rows == 0..(Len(bwt) - 1)
         IN  IF symbol \notin DOMAIN first_occurrences THEN Interval(0, 0)
             ELSE IF top \notin rows \/ bot \notin rows THEN Raised
             ELSE LET top_rank == compute_rank(bwt, top, ranks, symbol, CheckpointStride)
                      bot_rank == compute_rank(bwt, bot, ranks, symbol, CheckpointStride)
                      marker == At(bwt, top) = symbol
                      top1 == first_occurrences[symbol] + top_rank
                      top2 == IF marker THEN top1 - 1 ELSE top1
                      bot2 == first_occurrences[symbol] + bot_rank - 1
                  IN  IF bot2 - top2 < 0 THEN Interval(0, 0)
                      ELSE MatchLoop(bwt, pat, first_occurrences, ranks, i - 1, top2, bot2)

bw_better_match_pattern(bwt, pat, first_occurrences, ranks) ==
    MatchLoop(bwt, pat, first_occurrences, ranks, Len(pat) - 1, 0, Len(bwt) - 1)

\* mutant of lf_step: the 1-based rank is not turned into an offset
lf_step_one_based(bwt, rank, occurrences, p) ==
    (occurrences[At(bwt, p)] + At(rank, p)) % Len(bwt)

\* one LF step: p = occurrences[bwt[p]] + rank[p] - 1
lf_step(bwt, rank, occurrences, p) == occurrences[At(bwt, p)] + At(rank, p) - 1

\* the loop "while True" for one row.  The LF step permutes the rows, so a walk
\* that met no key of the partial suffix array in len(bwt) steps never meets
\* one: the loop does not end, which is the value Hangs.
Hangs == -1

RECURSIVE LFWalk(_, _, _, _, _, _)
LFWalk(psa, bwt, rank, occurrences, p, plus_count) ==
    LET p1 == lf_step(bwt, rank, occurrences, p)
        count1 == plus_count + 1
    IN  IF p1 \in DOMAIN psa THEN (psa[p1] + count1) % Len(bwt)
        ELSE IF count1 > Len(bwt) THEN Hangs
        ELSE LFWalk(psa, bwt, rank, occurrences, p1, count1)

\* pattern_idxes, one entry per row of range(start, end)
compute_idxes_from_top_bot(start, end, psa, bwt, rank, occurrences) ==
    [x \in 1..Max2(end - start, 0) |->
        LFWalk(psa, bwt, rank, occurrences, start + x - 1, 0)]

(***************************************************************************)
(* Seed generation.                                                        *)
(***************************************************************************)
\* mutant of generate_seeds: the loop runs over range(0, len(read))
generate_seeds_every_offset(rd, bwt, k, psa, first_occurrences, checkpoint_arrs, ranks) ==
    [x \in 1..Len(rd) |->
        LET i == x - 1
            kmer == PySlice(rd, i, i + k)
            se == bw_better_match_pattern(bwt, kmer, first_occurrences, checkpoint_arrs)
        IN  compute_idxes_from_top_bot(se.lo, se.hi, psa, bwt, ranks, first_occurrences)]

\* the list of lists seed_idxes, one entry per offset of range(0, len(read) - k + 1)
generate_seeds(rd, bwt, k, psa, first_occurrences, checkpoint_arrs, ranks) ==
    [x \in 1..Max2(Len(rd) - k + 1, 0) |->
        LET i == x - 1
            kmer == PySlice(rd, i, i + k)
            se == bw_better_match_pattern(bwt, kmer, first_occurrences, checkpoint_arrs)
        IN  compute_idxes_from_top_bot(se.lo, se.hi, psa, bwt, ranks, first_occurrences)]

(***************************************************************************)
(* The index of a reference: T = R + '$', then the builders.               *)
(***************************************************************************)
EmptyIndex ==
    [text |-> <<>>, sa |-> <<>>, bwt |-> <<>>, psa |-> <<>>,
     first_occurrences |-> <<>>, checkpoint_arrs |-> <<>>, ranks |-> <<>>]

\* bwt_psa_out on R + '$', and the three auxiliary structures of the BWT
build_index(R, k) ==
    LET text == R \o <<Sentinel>>
        sa == suffix_array(text)
        bwt == bwt_from_suffix_array(text, sa)
    IN  [text |-> text, sa |-> sa, bwt |-> bwt,
         psa |-> partial_suffix_array(sa, k),
         first_occurrences |-> compute_first_occurrences(bwt),
         checkpoint_arrs |-> compute_checkpoint_arrs(bwt),
         ranks |-> compute_rank_arr(bwt)]

(***************************************************************************)
(* Inputs.                                                                 *)
(***************************************************************************)
Refs == Strings(Alphabet, 1, MaxRefLen)
Patterns == Strings(Alphabet \cup {Foreign}, 0, MaxPatLen)

NoInterval == Interval(0, 0)
NoScoring == [mr |-> 0, mmp |-> 0, indp |-> 0, band |-> 1, go |-> 0, ge |-> 0]
NoResult == [isNone |-> TRUE, raised |-> FALSE, idx |-> 0, score |-> 0,
             s_align |-> <<>>, t_align |-> <<>>, seed |-> 0, scored |-> <<>>]
NoAlignment == [score |-> 0, s_align |-> <<>>, t_align |-> <<>>, raised |-> FALSE]

\* the variables a specification does not use
IdleQuery ==
    /\ pattern = <<>> /\ interval = NoInterval /\ idxes = <<>>
IdleSeeds ==
    /\ read = <<>> /\ klen = 1 /\ seeds = <<>> /\ best = NoResult /\ cigar = <<>>
IdleAlign ==
    /\ s = <<>> /\ t = <<>> /\ banded = 0 /\ traced = NoAlignment
    /\ affine = NoAlignment

(***************************************************************************)
(* Specification SpecIndex: build the index of a reference, search a       *)
(* pattern, recover its positions.                                         *)
(***************************************************************************)
InitIndex ==
    /\ pc = "load"
    /\ ref \in Refs
    /\ stride \in 1..MaxStride
    /\ index = EmptyIndex
    /\ scoring = NoScoring
    /\ IdleQuery /\ IdleSeeds /\ IdleAlign

BuildIndex ==
    /\ pc = "load"
    /\ index' = build_index(ref, stride)
    /\ pc' = "ready"
    /\ UNCHANGED <<ref, stride, pattern, interval, idxes, read, klen, seeds,
                   scoring, best, cigar, s, t, banded, traced, affine>>

MatchPattern ==
    /\ pc = "ready"
    /\ \E w \in Patterns :
         /\ pattern' = w
         /\ interval' = bw_better_match_pattern(index.bwt, w,
                            index.first_occurrences, index.checkpoint_arrs)
    /\ pc' = "matched"
    /\ UNCHANGED <<ref, stride, index, idxes, read, klen, seeds,
                   scoring, best, cigar, s, t, banded, traced, affine>>

ComputeIdxes ==
    /\ pc = "matched"
    /\ ~interval.raised
    /\ idxes' = compute_idxes_from_top_bot(interval.lo, interval.hi, index.psa,
                    index.bwt, index.ranks, index.first_occurrences)
    /\ pc' = "located"
    /\ UNCHANGED <<ref, stride, index, pattern, interval, read, klen, seeds,
                   scoring, best, cigar, s, t, banded, traced, affine>>

NextIndex == BuildIndex \/ MatchPattern \/ ComputeIdxes

SpecIndex == InitIndex /\ [][NextIndex]_vars

(***************************************************************************)
(* Reference notions the claims are stated with.                           *)
(***************************************************************************)
\* the offsets at which w occurs in text
Occurrences(w, text) ==
    {i \in 0..(Len(text) - Len(w)) : SubSeq(text, i + 1, i + Len(w)) = w}

\* a is lexicographically smaller than b, characters compared by code point
RECURSIVE LexLess(_, _)
LexLess(a, b) ==
    IF b = <<>> THEN FALSE
    ELSE IF a = <<>> THEN TRUE
    ELSE IF Head(a) # Head(b) THEN Ord(Head(a)) < Ord(Head(b))
    ELSE LexLess(Tail(a), Tail(b))

Suffix(text, i) == SubSeq(text, i + 1, Len(text))

SeqToSet(q) == {q[x] : x \in 1..Len(q)}
NoDuplicates(q) == \A x, y \in 1..Len(q) : x # y => q[x] # q[y]

(***************************************************************************)
(* Claims on the index (specification SpecIndex).                          *)
(***************************************************************************)
Searched == pc \in {"matched", "located"}

\* C1: for every reference R and every non-empty pattern w over the reference
\* alphabet and a foreign character, bw_better_match_pattern on the index of
\* T = R + '$' raises nothing and returns (lo, hi) with hi - lo = the number of
\* occurrences of w in T; when w does not occur it returns exactly (0, 0).
C1_SearchCountsOccurrences ==
    (Searched /\ pattern # <<>>) =>
        /\ ~interval.raised
        /\ interval.hi - interval.lo = Cardinality(Occurrences(pattern, index.text))
        /\ (Occurrences(pattern, index.text) = {} =>
                interval.lo = 0 /\ interval.hi = 0)

\* a pattern of two characters or more that occurs twice or more
C1_Witness ==
    /\ pc = "matched"
    /\ Len(pattern) >= 2
    /\ Cardinality(Occurrences(pattern, index.text)) >= 2
    /\ interval.hi - interval.lo >= 2

\* C2: for every reference R, stride K >= 1 and substring w of R,
\* compute_idxes_from_top_bot on the interval of w returns each starting
\* offset of w in R exactly once and nothing else (and its walks all end).
C2_PositionsAreOffsets ==
    (pc = "located" /\ Occurrences(pattern, ref) # {}) =>
        /\ Hangs \notin SeqToSet(idxes)
        /\ NoDuplicates(idxes)
        /\ SeqToSet(idxes) = Occurrences(pattern, ref)

\* a repeated substring located through a sampled suffix array
C2_Witness ==
    /\ pc = "located"
    /\ stride >= 2
    /\ pattern # <<>>
    /\ Len(idxes) >= 2
    /\ SeqToSet(idxes) = Occurrences(pattern, ref)

\* C3: suffix_array(T) is a permutation of [0, |T|) that lists the suffixes of
\* T in strictly increasing lexicographic order.
C3_SuffixArraySorted ==
    (pc # "load") =>
        LET n == Len(index.text)
        IN  /\ Len(index.sa) = n
            /\ SeqToSet(index.sa) = 0..(n - 1)
            /\ \A x, y \in 1..n :
                 x < y => LexLess(Suffix(index.text, index.sa[x]),
                                  Suffix(index.text, index.sa[y]))

\* a text whose order needs more than the first two characters of a suffix
C3_Witness ==
    /\ pc = "ready"
    /\ Len(index.text) >= 5
    /\ \E x, y \in 1..Len(index.text) :
         /\ x < y
         /\ Len(Suffix(index.text, index.sa[x])) >= 3
         /\ Len(Suffix(index.text, index.sa[y])) >= 3
         /\ SubSeq(Suffix(index.text, index.sa[x]), 1, 3)
              = SubSeq(Suffix(index.text, index.sa[y]), 1, 3)

(***************************************************************************)
(* Scores.  float('-inf') absorbs additions and is below every integer.    *)
(***************************************************************************)
Plus(a, x) == IF a = NegInf THEN NegInf ELSE a + x
\* mutant of Minus: the penalty is added
MinusSignSlip(a, x) == IF a = NegInf THEN NegInf ELSE a + x

Minus(a, x) == IF a = NegInf THEN NegInf ELSE a - x
\* mutant of Max3: the third move is left out
Max3FirstTwo(a, b, c) == Max2(a, b)

Max3(a, b, c) == Max2(a, Max2(b, c))

\* a (len_s + 1) x (len_t + 1) matrix filled with v
Matrix(rows, cols, v) == [i \in 0..(rows - 1) |-> [j \in 0..(cols - 1) |-> v]]

\* mr for equal bases, -mmp otherwise
MatchScore(mr, mmp, a, b) == IF a = b THEN mr ELSE 0 - mmp

(***************************************************************************)
(* banded_alignment: the score alone.  c counts the cells in the order of  *)
(* the two nested loops.                                                   *)
(***************************************************************************)
RECURSIVE BandedFill(_, _, _, _, _, _, _, _)
BandedFill(mr, mmp, indp, bp, a, b, c, l) ==
    LET cols == Len(b) + 1
        i == c \div cols
        j == c % cols
    IN  IF c >= (Len(a) + 1) * cols THEN l
        ELSE IF i = 0 /\ j = 0
             THEN BandedFill(mr, mmp, indp, bp, a, b, c + 1, [l EXCEPT ![0][0] = 0])
        ELSE IF Abs(j - i) < bp
             THEN IF i = 0
                  THEN BandedFill(mr, mmp, indp, bp, a, b, c + 1,
                                  [l EXCEPT ![i][j] = j * (0 - indp)])
                  ELSE IF j = 0
                  THEN BandedFill(mr, mmp, indp, bp, a, b, c + 1,
                                  [l EXCEPT ![i][j] = i * (0 - indp)])
                  ELSE LET match == MatchScore(mr, mmp, a[i], b[j])
                           v == Max3(Minus(l[i - 1][j], indp),
                                     Minus(l[i][j - 1], indp),
                                     Plus(l[i - 1][j - 1], match))
                       IN  BandedFill(mr, mmp, indp, bp, a, b, c + 1,
                                      [l EXCEPT ![i][j] = v])
        ELSE BandedFill(mr, mmp, indp, bp, a, b, c + 1, l)

banded_alignment(mr, mmp, indp, bp, a, b) ==
    LET l == BandedFill(mr, mmp, indp, bp, a, b, 0,
                        Matrix(Len(a) + 1, Len(b) + 1, NegInf))
    IN  l[Len(a)][Len(b)]

(***************************************************************************)
(* BandedAlignmentWithBackTrack and its backtrack.  m.l is the score       *)
(* matrix, m.b the matrix of pointers ("None", "d", "r", "dr").            *)
(***************************************************************************)
RECURSIVE TraceFill(_, _, _, _, _, _, _, _)
TraceFill(mr, mmp, indp, bp, a, b, c, m) ==
    LET cols == Len(b) + 1
        i == c \div cols
        j == c % cols
    IN  IF c >= (Len(a) + 1) * cols THEN m
        ELSE IF i = 0   \* cell (0,0) is set to 0 and then to j * (-indp) = 0
             THEN TraceFill(mr, mmp, indp, bp, a, b, c + 1,
                            [m EXCEPT !.l[i][j] = j * (0 - indp)])
        ELSE IF j = 0
             THEN TraceFill(mr, mmp, indp, bp, a, b, c + 1,
                            [m EXCEPT !.l[i][j] = i * (0 - indp)])
        ELSE IF Abs(j - i) < bp
             THEN LET match == MatchScore(mr, mmp, a[i], b[j])
                      down == Minus(m.l[i - 1][j], indp)
                      right == Minus(m.l[i][j - 1], indp)
                      diag == Plus(m.l[i - 1][j - 1], match)
                      v == Max3(down, right, diag)
                      ptr == IF v = down THEN "d"
                             ELSE IF v = right THEN "r"
                             ELSE IF v = diag THEN "dr"
                             ELSE "None"
                  IN  TraceFill(mr, mmp, indp, bp, a, b, c + 1,
                                [m EXCEPT !.l[i][j] = v, !.b[i - 1][j - 1] = ptr])
        ELSE TraceFill(mr, mmp, indp, bp, a, b, c + 1, m)

\* the pair (s_align, t_align) built from the pointer matrix b
RECURSIVE backtrack(_, _, _, _, _, _)
backtrack(b, a, c, i, j, band_parameter) ==
    IF i < 0 /\ j < 0 THEN [s_align |-> <<>>, t_align |-> <<>>]
    ELSE IF i < 0
         THEN [s_align |-> Repeat("-", j + 1), t_align |-> PySlice(c, 0, j + 1)]
    ELSE IF j < 0
         THEN [s_align |-> PySlice(a, 0, i + 1), t_align |-> Repeat("-", i + 1)]
    ELSE IF b[i][j] = "d" /\ Abs(j - i) < band_parameter
         THEN LET prime == backtrack(b, a, c, i - 1, j, band_parameter)
              IN  [s_align |-> Append(prime.s_align, At(a, i)),
                   t_align |-> Append(prime.t_align, "-")]
    ELSE IF b[i][j] = "r" /\ Abs(j - i) < band_parameter
         THEN LET prime == backtrack(b, a, c, i, j - 1, band_parameter)
              IN  [s_align |-> Append(prime.s_align, "-"),
                   t_align |-> Append(prime.t_align, At(c, j))]
    ELSE LET prime == backtrack(b, a, c, i - 1, j - 1, band_parameter)
         IN  [s_align |-> Append(prime.s_align, At(a, i)),
              t_align |-> Append(prime.t_align, At(c, j))]

BandedAlignmentWithBackTrack(match_reward, mismatch_penalty, indel_penalty, band_parameter, a, b) ==
    LET m == TraceFill(match_reward, mismatch_penalty, indel_penalty,
                       band_parameter, a, b, 0,
                       [l |-> Matrix(Len(a) + 1, Len(b) + 1, NegInf),
                        b |-> Matrix(Len(a), Len(b), "None")])
        al == backtrack(m.b, a, b, Len(a) - 1, Len(b) - 1, band_parameter)
    IN  [score |-> m.l[Len(a)][Len(b)],
         s_align |-> al.s_align, t_align |-> al.t_align, raised |-> FALSE]

(***************************************************************************)
(* AffineAlignment and its backtrack (build/lib).  The three score         *)
(* matrices start filled with 0, the three pointer matrices with None.     *)
(***************************************************************************)
\* the body of the two loops for cell (i, j)
AffineCell(mr, mmp, go, ge, a, b, i, j, m) ==
    IF i = 0 /\ j = 0
    THEN [m EXCEPT !.lower[i][j] = NegInf, !.upper[i][j] = NegInf]
    ELSE IF i = 0
    THEN [m EXCEPT !.lower[i][j] = NegInf,
                   !.middle[i][j] = (0 - go) - ((j - 1) * ge)]
    ELSE IF j = 0
    THEN [m EXCEPT !.upper[i][j] = NegInf,
                   !.middle[i][j] = (0 - go) - ((i - 1) * ge)]
    ELSE LET match == MatchScore(mr, mmp, a[i], b[j])
             low_ext == Minus(m.lower[i - 1][j], ge)
             low_open == Minus(m.middle[i - 1][j], go)
             up_ext == Minus(m.upper[i][j - 1], ge)
             up_open == Minus(m.middle[i][j - 1], go)
             diag == Plus(m.middle[i - 1][j - 1], match)
             low == Max2(low_ext, low_open)
             up == Max2(up_ext, up_open)
             mid == Max3(low, up, diag)
             p_lower == IF low = low_ext THEN "d"
                        ELSE IF low = low_open THEN "open" ELSE "None"
             p_upper == IF up = up_ext THEN "r"
                        ELSE IF up = up_open THEN "open" ELSE "None"
             p_middle == IF mid = low THEN "in_close"
                         ELSE IF mid = up THEN "del_close"
                         ELSE IF mid = diag THEN "dr" ELSE "None"
         IN  [m EXCEPT !.lower[i][j] = low, !.upper[i][j] = up,
                       !.middle[i][j] = mid,
                       !.b_lower[i - 1][j - 1] = p_lower,
                       !.b_upper[i - 1][j - 1] = p_upper,
                       !.b_middle[i - 1][j - 1] = p_middle]

\* the inner loop: for j in range(0, len(t) + 1), in row i
RECURSIVE AffineRow(_, _, _, _, _, _, _, _, _)
AffineRow(mr, mmp, go, ge, a, b, i, j, m) ==
    IF j \notin DOMAIN m.middle[i] THEN m
    ELSE AffineRow(mr, mmp, go, ge, a, b, i, j + 1,
                   AffineCell(mr, mmp, go, ge, a, b, i, j, m))

\* the outer loop: for i in range(0, len(s) + 1)
RECURSIVE AffineFill(_, _, _, _, _, _, _, _)
AffineFill(mr, mmp, go, ge, a, b, i, m) ==
    IF i \notin DOMAIN m.middle THEN m
    ELSE AffineFill(mr, mmp, go, ge, a, b, i + 1,
                    AffineRow(mr, mmp, go, ge, a, b, i, 0, m))

\* what a backtrack call hands back: a pair, or None when no branch returns
AlignedPair(x, y) == [s_align |-> x, t_align |-> y, none |-> FALSE]
ReturnsNone == [s_align |-> <<>>, t_align |-> <<>>, none |-> TRUE]

\* s_prime + x, t_prime + y; unpacking a None raises, which reaches the caller
Extend(prime, x, y) ==
    IF prime.none THEN ReturnsNone
    ELSE AlignedPair(Append(prime.s_align, x), Append(prime.t_align, y))

RECURSIVE affine_backtrack(_, _, _, _, _, _)
affine_backtrack(a, c, m, i, j, LEVEL) ==
    IF i < 0 /\ j < 0 THEN AlignedPair(<<>>, <<>>)
    ELSE IF i < 0 THEN AlignedPair(Repeat("-", j + 1), PySlice(c, 0, j + 1))
    ELSE IF j < 0 THEN AlignedPair(PySlice(a, 0, i + 1), Repeat("-", i + 1))
    ELSE IF LEVEL = "middle"
         THEN IF m.b_middle[i][j] = "in_close"
              THEN affine_backtrack(a, c, m, i, j, "lower")
              ELSE IF m.b_middle[i][j] = "del_close"
              THEN affine_backtrack(a, c, m, i, j, "upper")
              ELSE IF m.b_middle[i][j] = "dr"
              THEN Extend(affine_backtrack(a, c, m, i - 1, j - 1, "middle"),
                          At(a, i), At(c, j))
              ELSE ReturnsNone
    ELSE IF LEVEL = "lower"
         THEN IF m.b_lower[i][j] = "d"
              THEN Extend(affine_backtrack(a, c, m, i - 1, j, "lower"), At(a, i), "-")
              ELSE IF m.b_lower[i][j] = "open"
              THEN Extend(affine_backtrack(a, c, m, i - 1, j, "middle"), At(a, i), "-")
              ELSE ReturnsNone
    ELSE IF LEVEL = "upper"
         THEN IF m.b_upper[i][j] = "r"
              THEN Extend(affine_backtrack(a, c, m, i, j - 1, "upper"), "-", At(c, j))
              ELSE IF m.b_upper[i][j] = "open"
              THEN Extend(affine_backtrack(a, c, m, i, j - 1, "middle"), "-", At(c, j))
              ELSE ReturnsNone
    ELSE ReturnsNone

AffineAlignment(match_reward, mismatch_penalty, gap_opening_penalty, gap_extension_penalty, a, b) ==
    LET m == AffineFill(match_reward, mismatch_penalty, gap_opening_penalty,
                        gap_extension_penalty, a, b, 0,
                        [lower |-> Matrix(Len(a) + 1, Len(b) + 1, 0),
                         upper |-> Matrix(Len(a) + 1, Len(b) + 1, 0),
                         middle |-> Matrix(Len(a) + 1, Len(b) + 1, 0),
                         b_lower |-> Matrix(Len(a), Len(b), "None"),
                         b_upper |-> Matrix(Len(a), Len(b), "None"),
                         b_middle |-> Matrix(Len(a), Len(b), "None")])
        al == affine_backtrack(a, b, m, Len(a) - 1, Len(b) - 1, "middle")
    IN  [score |-> Max3(m.lower[Len(a)][Len(b)], m.middle[Len(a)][Len(b)],
                        m.upper[Len(a)][Len(b)]),
         s_align |-> al.s_align, t_align |-> al.t_align, raised |-> al.none]

(***************************************************************************)
(* Specification SpecAlign: two strings, then each engine on them.         *)
(***************************************************************************)
MaxStrLen == 3
MaxScore == 1
MaxBand == 2

AlignStrings == Strings(Alphabet, 0, MaxStrLen)
ScoreValues == 0..MaxScore
BandValues == 1..MaxBand

IdleIndex == ref = <<>> /\ stride = 1 /\ index = EmptyIndex

InitAlign ==
    /\ pc = "input"
    /\ s \in AlignStrings
    /\ t \in AlignStrings
    /\ scoring = NoScoring
    /\ banded = 0 /\ traced = NoAlignment /\ affine = NoAlignment
    /\ IdleIndex /\ IdleQuery /\ IdleSeeds

\* banded_alignment(mr, mmp, indp, bp, s, t)
BandedScore ==
    /\ pc = "input"
    /\ \E mr \in ScoreValues, mmp \in ScoreValues, indp \in ScoreValues,
          bp \in BandValues :
         /\ scoring' = [NoScoring EXCEPT !.mr = mr, !.mmp = mmp, !.indp = indp,
                                         !.band = bp]
         /\ banded' = banded_alignment(mr, mmp, indp, bp, s, t)
    /\ pc' = "banded"
    /\ UNCHANGED <<ref, stride, index, pattern, interval, idxes, read, klen,
                   seeds, best, cigar, s, t, traced, affine>>

\* BandedAlignmentWithBackTrack(mr, mmp, indp, bp, s, t)
BandedTrace ==
    /\ pc = "input"
    /\ \E mr \in ScoreValues, mmp \in ScoreValues, indp \in ScoreValues,
          bp \in BandValues :
         /\ scoring' = [NoScoring EXCEPT !.mr = mr, !.mmp = mmp, !.indp = indp,
                                         !.band = bp]
         /\ traced' = BandedAlignmentWithBackTrack(mr, mmp, indp, bp, s, t)
    /\ pc' = "traced"
    /\ UNCHANGED <<ref, stride, index, pattern, interval, idxes, read, klen,
                   seeds, best, cigar, s, t, banded, affine>>

\* AffineAlignment(mr, mmp, go, ge, s, t)
AffineTrace ==
    /\ pc = "input"
    /\ \E mr \in ScoreValues, mmp \in ScoreValues, go \in ScoreValues,
          ge \in ScoreValues :
         /\ scoring' = [NoScoring EXCEPT !.mr = mr, !.mmp = mmp, !.go = go,
                                         !.ge = ge]
         /\ affine' = AffineAlignment(mr, mmp, go, ge, s, t)
    /\ pc' = "affine"
    /\ UNCHANGED <<ref, stride, index, pattern, interval, idxes, read, klen,
                   seeds, best, cigar, s, t, banded, traced>>

NextAlign == BandedScore \/ BandedTrace \/ AffineTrace

SpecAlign == InitAlign /\ [][NextAlign]_vars

(***************************************************************************)
(* Claims on the alignment engines (specification SpecAlign).              *)
(***************************************************************************)
RECURSIVE StripGaps(_)
StripGaps(q) ==
    IF q = <<>> THEN <<>>
    ELSE IF Head(q) = "-" THEN StripGaps(Tail(q))
    ELSE <<Head(q)>> \o StripGaps(Tail(q))

\* the aligned pair has equal lengths and spells a and b once gaps are removed
WellFormed(al, a, b) ==
    /\ ~al.raised
    /\ Len(al.s_align) = Len(al.t_align)
    /\ StripGaps(al.s_align) = a
    /\ StripGaps(al.t_align) = b

\* C9: for all strings s, t (empty ones included) and all valid parameters, the
\* pair returned by BandedAlignmentWithBackTrack and by AffineAlignment has two
\* strings of equal length that give back s and t when every '-' is removed.
C9_AlignedPairSpellsInputs ==
    /\ pc = "traced" => WellFormed(traced, s, t)
    /\ pc = "affine" => WellFormed(affine, s, t)

\* an affine alignment with a gap in it, of strings of different lengths
C9_Witness ==
    /\ pc = "affine"
    /\ Len(s) # Len(t) /\ s # <<>> /\ t # <<>>
    /\ Len(affine.s_align) > Len(s)
    /\ WellFormed(affine, s, t)

Smaller(a, b) == Min2(Len(a), Len(b))

\* C10: for all strings s, t and non-negative parameters the score of
\* banded_alignment, of BandedAlignmentWithBackTrack and of AffineAlignment is
\* at most mr * min(|s|, |t|).
C10_ScoreBound ==
    /\ pc = "banded" => banded <= scoring.mr * Smaller(s, t)
    /\ pc = "traced" => traced.score <= scoring.mr * Smaller(s, t)
    /\ pc = "affine" => affine.score <= scoring.mr * Smaller(s, t)

\* a finite banded score that meets the bound with a positive reward
C10_Witness ==
    /\ pc = "banded"
    /\ scoring.mr >= 1 /\ Smaller(s, t) >= 2
    /\ banded = scoring.mr * Smaller(s, t)

(***************************************************************************)
(* calculate_cigar.  The string is kept as its sequence of runs: the run   *)
(* f"{n}M" is <<n, "M">>.                                                  *)
(***************************************************************************)
RECURSIVE CigarLoop(_, _, _, _)
CigarLoop(alignment_s, alignment_t, x, st) ==
    IF x > Min2(Len(alignment_s), Len(alignment_t)) THEN st
    ELSE LET a == alignment_s[x]
             b == alignment_t[x]
         IN  IF a = "-" /\ b # "-"
             THEN CigarLoop(alignment_s, alignment_t, x + 1,
                      IF st.match > 0
                      THEN [st EXCEPT !.cigar = Append(@, <<st.match, "M">>),
                                      !.match = 0, !.del = @ + 1]
                      ELSE [st EXCEPT !.del = @ + 1])
             ELSE IF a # "-" /\ b = "-"
             THEN CigarLoop(alignment_s, alignment_t, x + 1,
                      IF st.match > 0
                      THEN [st EXCEPT !.cigar = Append(@, <<st.match, "M">>),
                                      !.match = 0, !.ins = @ + 1]
                      ELSE [st EXCEPT !.ins = @ + 1])
             ELSE LET flushI == IF st.ins > 0
                                THEN Append(st.cigar, <<st.ins, "I">>)
                                ELSE st.cigar
                      flushD == IF st.del > 0
                                THEN Append(flushI, <<st.del, "D">>)
                                ELSE flushI
                  IN  CigarLoop(alignment_s, alignment_t, x + 1,
                          [cigar |-> flushD, match |-> st.match + 1,
                           ins |-> 0, del |-> 0])

\* mutant of calculate_cigar: the counters are not flushed after the loop
calculate_cigar_no_final_flush(alignment_s, alignment_t) ==
    CigarLoop(alignment_s, alignment_t, 1,
              [cigar |-> <<>>, match |-> 0, ins |-> 0, del |-> 0]).cigar

calculate_cigar(alignment_s, alignment_t) ==
    LET st == CigarLoop(alignment_s, alignment_t, 1,
                        [cigar |-> <<>>, match |-> 0, ins |-> 0, del |-> 0])
        withM == IF st.match > 0 THEN Append(st.cigar, <<st.match, "M">>)
                 ELSE st.cigar
        withI == IF st.ins > 0 THEN Append(withM, <<st.ins, "I">>) ELSE withM
    IN  IF st.del > 0 THEN Append(withI, <<st.del, "D">>) ELSE withI

(***************************************************************************)
(* compute_max_seed.  A result is None, an exception, or the tuple         *)
(* (idx, score, s_align, t_align).  Two fields observe the call without    *)
(* being returned: seed is the local best_seed, and scored lists the       *)
(* candidates <<i, ref_idx>> handed to the scoring function, in order.     *)
(***************************************************************************)
ReturnNone == NoResult

\* mutant of Better: a later candidate with an equal score replaces the best
BetterOrEqual(score, best_score) == score >= best_score

\* if score > best_score
Better(score, best_score) == score > best_score

\* the two nested loops of the banded driver, candidate x of seed offset i
RECURSIVE BandedScan(_, _, _, _, _, _, _, _)
BandedScan(R, rd, seed_idxes, sc, read_length, i, x, acc) ==
    IF i >= Len(seed_idxes) THEN acc
    ELSE IF x > Len(At(seed_idxes, i))
         THEN BandedScan(R, rd, seed_idxes, sc, read_length, i + 1, 1, acc)
    ELSE LET ref_idx == At(seed_idxes, i)[x]
             ref_segment == PySlice(R, ref_idx - i, ref_idx - i + read_length)
             score == banded_alignment(sc.mr, sc.mmp, sc.indp, sc.band,
                                       ref_segment, rd)
             seen == [acc EXCEPT !.scored = Append(@, <<i, ref_idx>>)]
         IN  BandedScan(R, rd, seed_idxes, sc, read_length, i, x + 1,
                 IF Better(score, acc.best_score)
                 THEN [seen EXCEPT !.best_score = score, !.best_idx = ref_idx,
                                   !.best_seed = i]
                 ELSE seen)

compute_max_seed(R, rd, seed_idxes, match_reward, mismatch_penalty, indel_penalty, band_width, read_length) ==
    IF Len(seed_idxes) = 0 THEN ReturnNone
    ELSE LET sc == [mr |-> match_reward, mmp |-> mismatch_penalty,
                    indp |-> indel_penalty, band |-> band_width]
             acc == BandedScan(R, rd, seed_idxes, sc, read_length, 0, 1,
                        [best_score |-> NegInf, best_idx |-> -1,
                         best_seed |-> -1, scored |-> <<>>])
             best_ref_seg == PySlice(R, acc.best_idx - acc.best_seed,
                                     acc.best_idx - acc.best_seed + read_length)
             al == BandedAlignmentWithBackTrack(match_reward, mismatch_penalty,
                       indel_penalty, band_width, best_ref_seg, rd)
         IN  [isNone |-> FALSE, raised |-> FALSE,
              idx |-> acc.best_idx, score |-> acc.best_score,
              s_align |-> al.s_align, t_align |-> al.t_align,
              seed |-> acc.best_seed, scored |-> acc.scored]

\* the loops of the affine driver (build/lib), which keeps the alignment of
\* the best candidate; an exception of AffineAlignment ends the call
RECURSIVE AffineScan(_, _, _, _, _, _, _, _)
AffineScan(R, rd, seed_idxes, sc, read_length, i, x, acc) ==
    IF acc.raised \/ i >= Len(seed_idxes) THEN acc
    ELSE IF x > Len(At(seed_idxes, i))
         THEN AffineScan(R, rd, seed_idxes, sc, read_length, i + 1, 1, acc)
    ELSE LET ref_idx == At(seed_idxes, i)[x]
             ref_segment == PySlice(R, ref_idx - i, ref_idx - i + read_length)
             al == AffineAlignment(sc.mr, sc.mmp, sc.go, sc.ge, ref_segment, rd)
             seen == [acc EXCEPT !.scored = Append(@, <<i, ref_idx>>)]
         IN  AffineScan(R, rd, seed_idxes, sc, read_length, i, x + 1,
                 IF al.raised THEN [seen EXCEPT !.raised = TRUE]
                 ELSE IF Better(al.score, acc.score)
                 THEN [seen EXCEPT !.score = al.score, !.idx = ref_idx,
                                   !.seed = i, !.s_align = al.s_align,
                                   !.t_align = al.t_align]
                 ELSE seen)

compute_max_seed_affine(R, rd, seed_idxes, match_reward, mismatch_penalty, gap_opening_penalty, gap_extension_penalty, read_length) ==
    AffineScan(R, rd, seed_idxes,
               [mr |-> match_reward, mmp |-> mismatch_penalty,
                go |-> gap_opening_penalty, ge |-> gap_extension_penalty],
               read_length, 0, 1,
               [isNone |-> FALSE, raised |-> FALSE, idx |-> -1, score |-> NegInf,
                s_align |-> <<>>, t_align |-> <<>>, seed |-> -1, scored |-> <<>>])

(***************************************************************************)
(* Specification SpecSeed: index a reference, generate the seeds of a      *)
(* read, extend them with the banded or the affine driver, encode the      *)
(* winning alignment.                                                      *)
(***************************************************************************)
MaxSeedRefLen == 3
MaxReadLen == 2
SeedStride == 2

SeedRefs == Strings(Alphabet, 1, MaxSeedRefLen)
Reads == Strings(Alphabet, 1, MaxReadLen)

InitSeed ==
    /\ pc = "load"
    /\ ref \in SeedRefs
    /\ stride = SeedStride
    /\ index = EmptyIndex
    /\ scoring = NoScoring
    /\ IdleQuery /\ IdleSeeds /\ IdleAlign

\* generate_seeds(read, bwt, k, psa, first_occurrences, checkpoint_arrs, ranks)
GenerateSeeds ==
    /\ pc = "ready"
    /\ \E rd \in Reads : \E k \in 1..Len(rd) :
         /\ Len(rd) <= Len(ref)
         /\ read' = rd
         /\ klen' = k
         /\ seeds' = generate_seeds(rd, index.bwt, k, index.psa,
                         index.first_occurrences, index.checkpoint_arrs,
                         index.ranks)
    /\ pc' = "seeded"
    /\ UNCHANGED <<ref, stride, index, pattern, interval, idxes, scoring, best,
                   cigar, s, t, banded, traced, affine>>

\* a caller that hands compute_max_seed an empty seed list
SupplyNoSeeds ==
    /\ pc = "ready"
    /\ \E rd \in Reads : Len(rd) <= Len(ref) /\ read' = rd
    /\ seeds' = <<>>
    /\ pc' = "supplied"
    /\ UNCHANGED <<ref, stride, index, pattern, interval, idxes, klen, scoring,
                   best, cigar, s, t, banded, traced, affine>>

\* compute_max_seed of utils.py (banded engine)
ExtendBanded ==
    /\ pc \in {"seeded", "supplied"}
    /\ \E mr \in ScoreValues, mmp \in ScoreValues, indp \in ScoreValues,
          bp \in BandValues :
         /\ scoring' = [NoScoring EXCEPT !.mr = mr, !.mmp = mmp, !.indp = indp,
                                         !.band = bp]
         /\ best' = compute_max_seed(ref, read, seeds, mr, mmp, indp, bp, Len(read))
    /\ pc' = "extended"
    /\ UNCHANGED <<ref, stride, index, pattern, interval, idxes, read, klen,
                   seeds, cigar, s, t, banded, traced, affine>>

\* compute_max_seed of build/lib (affine engine)
ExtendAffine ==
    /\ pc \in {"seeded", "supplied"}
    /\ \E mr \in ScoreValues, mmp \in ScoreValues, go \in ScoreValues,
          ge \in ScoreValues :
         /\ scoring' = [NoScoring EXCEPT !.mr = mr, !.mmp = mmp, !.go = go,
                                         !.ge = ge]
         /\ best' = compute_max_seed_affine(ref, read, seeds, mr, mmp, go, ge,
                                            Len(read))
    /\ pc' = "extended_affine"
    /\ UNCHANGED <<ref, stride, index, pattern, interval, idxes, read, klen,
                   seeds, cigar, s, t, banded, traced, affine>>

\* calculate_cigar on the alignment the driver returned
EncodeCigar ==
    /\ pc \in {"extended", "extended_affine"}
    /\ ~best.isNone /\ ~best.raised
    /\ cigar' = calculate_cigar(best.s_align, best.t_align)
    /\ pc' = IF pc = "extended" THEN "encoded" ELSE "encoded_affine"
    /\ UNCHANGED <<ref, stride, index, pattern, interval, idxes, read, klen,
                   seeds, scoring, best, s, t, banded, traced, affine>>

NextSeed ==
    \/ BuildIndex
    \/ GenerateSeeds
    \/ SupplyNoSeeds
    \/ ExtendBanded
    \/ ExtendAffine
    \/ EncodeCigar

SpecSeed == InitSeed /\ [][NextSeed]_vars

(***************************************************************************)
(* Claims on seeding and seed extension (specification SpecSeed).          *)
(***************************************************************************)
ReadLen == Len(read)

\* the k-mer read[i:i+k]
Kmer(i) == SubSeq(read, i + 1, i + klen)

\* C4: for a read of length m and 1 <= k <= m, generate_seeds returns m-k+1
\* entries, and entry i holds exactly the positions where read[i:i+k] occurs
\* in R, each once (none when it does not occur).
C4_SeedsAreKmerOccurrences ==
    (pc = "seeded") =>
        /\ Len(seeds) = ReadLen - klen + 1
        /\ \A i \in 0..(ReadLen - klen) :
             /\ NoDuplicates(At(seeds, i))
             /\ SeqToSet(At(seeds, i)) = Occurrences(Kmer(i), ref)

\* a seed list with an empty entry and an entry of two positions or more
C4_Witness ==
    /\ pc = "seeded"
    /\ Len(seeds) >= 2
    /\ \E i \in 1..Len(seeds) : seeds[i] = <<>>
    /\ \E i \in 1..Len(seeds) : Len(seeds[i]) >= 2

\* the read occurs in the reference and its seeds were generated from it
ExactRead == Len(seeds) > 0 /\ Occurrences(read, ref) # {}

\* the driver returned a position where the read lies, with the full score
ExactPlacement ==
    /\ ~best.isNone /\ ~best.raised
    /\ best.idx \in Occurrences(read, ref)
    /\ best.score = ReadLen * scoring.mr

\* C5: for every read that occurs exactly in R (k <= m, mr >= 1, band >= 1),
\* generate_seeds, then compute_max_seed, then calculate_cigar give a position
\* q with R[q:q+m] = read, the score m * mr and the CIGAR <m>M; with the banded
\* driver and with the affine driver.
C5_ExactReadAlignsInPlace ==
    (ExactRead /\ scoring.mr >= 1) =>
        /\ pc \in {"extended", "extended_affine"} => ExactPlacement
        /\ pc \in {"encoded", "encoded_affine"} =>
              /\ ExactPlacement
              /\ cigar = << <<ReadLen, "M">> >>

\* an exact read that occurs twice, seeded with k < m, banded driver, encoded
C5_Witness ==
    /\ pc = "encoded"
    /\ ExactRead /\ scoring.mr >= 1
    /\ klen < ReadLen
    /\ Cardinality(Occurrences(read, ref)) >= 2
    /\ cigar = << <<ReadLen, "M">> >>

\* the candidates <<i, p>> of the seed list, in iteration order
RECURSIVE CandidatesFrom(_, _)
CandidatesFrom(seed_idxes, i) ==
    IF i >= Len(seed_idxes) THEN <<>>
    ELSE [x \in 1..Len(At(seed_idxes, i)) |-> <<i, At(seed_idxes, i)[x]>>]
         \o CandidatesFrom(seed_idxes, i + 1)

Candidates == CandidatesFrom(seeds, 0)

\* the window of candidate <<i, p>> leaves the reference
OutOfReference(c) == c[2] - c[1] < 0 \/ c[2] - c[1] + ReadLen > Len(ref)

\* C6: in compute_max_seed a candidate (i, p) with p-i < 0 or p-i+m > |R| is
\* skipped: never scored, never the best candidate, and the read not aborted.
C6_OutOfReferenceSkipped ==
    (pc = "extended") =>
        /\ ~best.raised
        /\ \A x \in 1..Len(Candidates) :
             OutOfReference(Candidates[x]) =>
                /\ Candidates[x] \notin SeqToSet(best.scored)
                /\ <<best.seed, best.idx>> # Candidates[x]

\* C7: compute_max_seed returns None whenever the seed list is empty or holds
\* no usable candidate (every entry empty, or every window out of the
\* reference); it returns no position, score or alignment then.
C7_NoSeedHitsReturnsNone ==
    (pc = "extended"
        /\ \A x \in 1..Len(Candidates) : OutOfReference(Candidates[x]))
    => best.isNone

\* the banded score of candidate <<i, p>>, as the driver computes it
CandidateScore(c) ==
    banded_alignment(scoring.mr, scoring.mmp, scoring.indp, scoring.band,
                     PySlice(ref, c[2] - c[1], c[2] - c[1] + ReadLen), read)

\* C8: compute_max_seed returns the maximum banded score over the scored
\* candidates, and the first candidate in iteration order that has it.
C8_MaxScoreFirstWins ==
    (pc = "extended" /\ Len(Candidates) > 0) =>
        \E x \in 1..Len(Candidates) :
            /\ \A y \in 1..Len(Candidates) :
                 CandidateScore(Candidates[y]) <= CandidateScore(Candidates[x])
            /\ \A y \in 1..(x - 1) :
                 CandidateScore(Candidates[y]) < CandidateScore(Candidates[x])
            /\ best.score = CandidateScore(Candidates[x])
            /\ <<best.seed, best.idx>> = Candidates[x]

(***************************************************************************)
(* Specification SpecCigar: calculate_cigar on every pair of aligned rows   *)
(* of equal length over the alphabet and the gap character.                *)
(***************************************************************************)
MaxColumns == 4

Gap == "-"
AlignedRows == Strings(Alphabet \cup {Gap}, 0, MaxColumns)

InitCigar ==
    /\ pc = "columns"
    /\ s \in AlignedRows
    /\ t \in AlignedRows
    /\ Len(s) = Len(t)
    /\ scoring = NoScoring
    /\ banded = 0 /\ traced = NoAlignment /\ affine = NoAlignment
    /\ IdleIndex /\ IdleQuery /\ IdleSeeds

\* calculate_cigar(alignment_s, alignment_t)
CalculateCigar ==
    /\ pc = "columns"
    /\ cigar' = calculate_cigar(s, t)
    /\ pc' = "cigar"
    /\ UNCHANGED <<ref, stride, index, pattern, interval, idxes, read, klen,
                   seeds, scoring, best, s, t, banded, traced, affine>>

NextCigar == CalculateCigar

SpecCigar == InitCigar /\ [][NextCigar]_vars

(***************************************************************************)
(* Claims on the CIGAR encoder (specification SpecCigar).                  *)
(***************************************************************************)
\* the sum of the lengths of the runs of c whose operation is in ops
RECURSIVE RunTotal(_, _)
RunTotal(c, ops) ==
    IF c = <<>> THEN 0
    ELSE (IF Head(c)[2] \in ops THEN Head(c)[1] ELSE 0) + RunTotal(Tail(c), ops)

\* the operations that occur in c
RunOps(c) == {c[x][2] : x \in 1..Len(c)}

\* C11: for every pair of aligned rows of equal length over the alphabet and
\* '-', the run lengths of calculate_cigar sum to the number of columns.
C11_RunLengthsSumToColumns ==
    (pc = "cigar") => RunTotal(cigar, {"M", "I", "D"}) = Len(s)

\* a CIGAR of three runs or more in which M, I and D all occur
C11_Witness ==
    /\ pc = "cigar"
    /\ Len(cigar) >= 3
    /\ RunOps(cigar) = {"M", "I", "D"}

\* no column of the pair holds a gap in both rows
NoDoubleGap == \A x \in 1..Len(s) : ~(s[x] = Gap /\ t[x] = Gap)

\* C12: for aligned rows of equal length without a column of two gaps, the M
\* and D runs of the CIGAR sum to the length of aligned_s without its gaps,
\* and the M and I runs to the length of aligned_t without its gaps.
C12_RunsCountBases ==
    (pc = "cigar" /\ NoDoubleGap) =>
        /\ RunTotal(cigar, {"M", "D"}) = Len(StripGaps(s))
        /\ RunTotal(cigar, {"M", "I"}) = Len(StripGaps(t))

\* the class of a column: D for a gap in s, I for a gap in t, M otherwise
ColumnOp(a, b) ==
    IF a = Gap /\ b # Gap THEN "D"
    ELSE IF a # Gap /\ b = Gap THEN "I"
    ELSE "M"

ColumnOps == [x \in 1..Len(s) |-> ColumnOp(s[x], t[x])]

\* the operation sequence a CIGAR stands for
RECURSIVE Expand(_)
Expand(c) ==
    IF c = <<>> THEN <<>>
    ELSE Repeat(Head(c)[2], Head(c)[1]) \o Expand(Tail(c))

\* C16: calculate_cigar is the run-length encoding of the column classes: one
\* run for every maximal block of columns of one class, in column order, so
\* that expanding it gives back the classes column by column, also where an
\* I run touches a D run.
C16_RunLengthEncoding ==
    (pc = "cigar") =>
        /\ Expand(cigar) = ColumnOps
        /\ \A x \in 1..Len(cigar) : cigar[x][1] >= 1
        /\ \A x \in 1..(Len(cigar) - 1) : cigar[x][2] # cigar[x + 1][2]

(***************************************************************************)
(* Specification SpecTrace: the banded engine with backtrace on a pair of  *)
(* strings, then the score-only engine on the same pair and parameters,    *)
(* then the CIGAR of the aligned pair.                                     *)
(***************************************************************************)
\* banded_alignment(mr, mmp, indp, bp, s, t) with the parameters of the trace
ScoreTraced ==
    /\ pc = "traced"
    /\ banded' = banded_alignment(scoring.mr, scoring.mmp, scoring.indp,
                                  scoring.band, s, t)
    /\ pc' = "scored"
    /\ UNCHANGED <<ref, stride, index, pattern, interval, idxes, read, klen,
                   seeds, scoring, best, cigar, s, t, traced, affine>>

\* calculate_cigar(s_align, t_align)
EncodeTrace ==
    /\ pc = "scored"
    /\ ~traced.raised
    /\ cigar' = calculate_cigar(traced.s_align, traced.t_align)
    /\ pc' = "trace_encoded"
    /\ UNCHANGED <<ref, stride, index, pattern, interval, idxes, read, klen,
                   seeds, scoring, best, s, t, banded, traced, affine>>

NextTrace == BandedTrace \/ ScoreTraced \/ EncodeTrace

SpecTrace == InitAlign /\ [][NextTrace]_vars

(***************************************************************************)
(* Claims on the banded engine with backtrace (specification SpecTrace).   *)
(***************************************************************************)
\* C13: for every non-empty s and all parameters mr >= 0, mmp >= 0,
\* indp >= 0, band >= 1, aligning s to itself with
\* BandedAlignmentWithBackTrack and encoding the result gives the CIGAR <|s|>M.
C13_SelfAlignmentIsAllM ==
    (pc = "trace_encoded" /\ s = t /\ Len(s) >= 1) =>
        cigar = << <<Len(s), "M">> >>

\* BandedAlignmentWithBackTrack has returned for the pair s, t
Traced == pc \in {"traced", "scored", "trace_encoded"}

\* the target cell (|s|, |t|) lies outside the band
TargetOutsideBand == Abs(Len(s) - Len(t)) >= scoring.band

\* C14: when the target cell H[|s|,|t|] is outside the band
\* (| |s| - |t| | >= b), the banded alignment with backtrace returns the score
\* minus infinity and two empty aligned strings.
C14_OutsideBandReturnsEmpty ==
    (Traced /\ TargetOutsideBand) =>
        /\ ~traced.raised
        /\ traced.score = NegInf
        /\ traced.s_align = <<>>
        /\ traced.t_align = <<>>

(***************************************************************************)
(* Specification SpecInsertion: the reference ACGTACGT, reads that are the *)
(* reference with one base inserted, seeds of length 1..MaxSeedLen, the    *)
(* affine driver with mr = 1, mmp = 3, go = 2, ge = 1, then the CIGAR.     *)
(***************************************************************************)
MaxSeedLen == 3

Bases == {"A", "C", "G", "T"}
InsertionRef == <<"A", "C", "G", "T", "A", "C", "G", "T">>
InsertionRead == <<"A", "C", "G", "T", "T", "A", "C", "G", "T">>

\* R with base c inserted after its first pos characters
InsertBase(R, pos, c) == SubSeq(R, 1, pos) \o <<c>> \o SubSeq(R, pos + 1, Len(R))

InitInsertion ==
    /\ pc = "load"
    /\ ref = InsertionRef
    /\ stride \in 1..MaxStride
    /\ index = EmptyIndex
    /\ scoring = NoScoring
    /\ IdleQuery /\ IdleSeeds /\ IdleAlign

\* generate_seeds(read, bwt, k, psa, first_occurrences, checkpoint_arrs, ranks)
SeedInsertion ==
    /\ pc = "ready"
    /\ \E pos \in 0..Len(ref), c \in Bases, k \in 1..MaxSeedLen :
         /\ read' = InsertBase(ref, pos, c)
         /\ klen' = k
         /\ seeds' = generate_seeds(read', index.bwt, k, index.psa,
                         index.first_occurrences, index.checkpoint_arrs,
                         index.ranks)
    /\ pc' = "seeded"
    /\ UNCHANGED <<ref, stride, index, pattern, interval, idxes, scoring, best,
                   cigar, s, t, banded, traced, affine>>

\* compute_max_seed(ref, read, seeds, 1, 3, 2, 1, len(read)), affine driver
ExtendInsertion ==
    /\ pc = "seeded"
    /\ scoring' = [NoScoring EXCEPT !.mr = 1, !.mmp = 3, !.go = 2, !.ge = 1]
    /\ best' = compute_max_seed_affine(ref, read, seeds, 1, 3, 2, 1, Len(read))
    /\ pc' = "extended_affine"
    /\ UNCHANGED <<ref, stride, index, pattern, interval, idxes, read, klen,
                   seeds, cigar, s, t, banded, traced, affine>>

NextInsertion == BuildIndex \/ SeedInsertion \/ ExtendInsertion \/ EncodeCigar

SpecInsertion == InitInsertion /\ [][NextInsertion]_vars

\* C15: for R = ACGTACGT, read = ACGTTACGT, k = 3 and the affine engine with
\* mr = 1, mmp = 3, go = 2, ge = 1, the seeds, the affine compute_max_seed and
\* calculate_cigar(aligned_ref, aligned_read) give the CIGAR 4M1I4M, with
\* exactly one I operation, and the score 6.
C15_SingleInsertionCigar ==
    (pc = "encoded_affine" /\ read = InsertionRead /\ klen = 3) =>
        /\ best.score = 6
        /\ RunTotal(cigar, {"I"}) = 1
        /\ cigar = << <<4, "M">>, <<1, "I">>, <<4, "M">> >>

\* C17: the scoring scan and the backtrace run use the same engine: for all
\* s, t and parameters, BandedAlignmentWithBackTrack returns the score that
\* banded_alignment returns, so the best score the driver reports is the score
\* of the alignment it returns.
C17_TraceScoreIsScanScore ==
    (pc \in {"scored", "trace_encoded"}) => traced.score = banded

(***************************************************************************)
(* Specification SpecBandedScore: banded_alignment alone on every pair of  *)
(* strings, and the claim on its score.                                    *)
(***************************************************************************)
NextBandedScore == BandedScore

SpecBandedScore == InitAlign /\ [][NextBandedScore]_vars

\* the linear-gap scores of all global alignments of s[0:i] and t[0:j] whose
\* path from (0,0) to (i,j) visits only cells (x,y) with |x-y| < band
RECURSIVE AlignmentScores(_, _)
AlignmentScores(i, j) ==
    IF Abs(i - j) >= scoring.band THEN {}
    ELSE IF i = 0 /\ j = 0 THEN {0}
    ELSE LET gap_t == IF i > 0
                      THEN {x - scoring.indp : x \in AlignmentScores(i - 1, j)}
                      ELSE {}
             gap_s == IF j > 0
                      THEN {x - scoring.indp : x \in AlignmentScores(i, j - 1)}
                      ELSE {}
             column == IF i > 0 /\ j > 0
                       THEN {x + (IF s[i] = t[j] THEN scoring.mr
                                  ELSE 0 - scoring.mmp) :
                               x \in AlignmentScores(i - 1, j - 1)}
                       ELSE {}
         IN  gap_t \cup gap_s \cup column

BandedScores == AlignmentScores(Len(s), Len(t))

\* C18: for all s, t, mr, mmp, indp >= 0 and band >= 1, banded_alignment
\* returns the largest linear-gap score over the global alignments whose path
\* stays in the band, and minus infinity when there is none.
C18_BandedScoreIsBandedOptimum ==
    (pc = "banded") =>
        IF BandedScores = {} THEN banded = NegInf
        ELSE /\ banded \in BandedScores
             /\ \A x \in BandedScores : x <= banded

\* strings of different lengths inside the band, with alignments of three
\* different scores or more
C18_Witness ==
    /\ pc = "banded"
    /\ Len(s) # Len(t)
    /\ Cardinality(BandedScores) >= 3
    /\ banded \in BandedScores

(***************************************************************************)
(* Specification SpecSample: partial_suffix_array on every permutation of  *)
(* [0, n) and every stride.                                                *)
(***************************************************************************)
MaxPermLen == 5

\* the permutations of [0, n) as suffix arrays
SuffixArrays(n) ==
    {p \in [1..n -> 0..(n - 1)] : \A a, b \in 1..n : a # b => p[a] # p[b]}

InitSample ==
    /\ pc = "sample"
    /\ ref = <<>>
    /\ stride \in 1..MaxStride
    /\ \E n \in 0..MaxPermLen : \E p \in SuffixArrays(n) :
         index = [EmptyIndex EXCEPT !.sa = p]
    /\ scoring = NoScoring
    /\ IdleQuery /\ IdleSeeds /\ IdleAlign

\* partial_suffix_array(sa, k)
SamplePartial ==
    /\ pc = "sample"
    /\ index' = [index EXCEPT !.psa = partial_suffix_array(index.sa, stride)]
    /\ pc' = "sampled"
    /\ UNCHANGED <<ref, stride, pattern, interval, idxes, read, klen, seeds,
                   scoring, best, cigar, s, t, banded, traced, affine>>

NextSample == SamplePartial

SpecSample == InitSample /\ [][NextSample]_vars

\* the rows whose suffix array value is a multiple of the stride
SampledRows == {i \in 0..(Len(index.sa) - 1) : At(index.sa, i) % stride = 0}

\* C19: for every permutation SA of [0, n) and every K >= 1,
\* partial_suffix_array(SA, K) is exactly the mapping i -> SA[i] for the rows
\* i with SA[i] mod K = 0.
C19_PartialIsRowSample ==
    (pc = "sampled") =>
        /\ DOMAIN index.psa = SampledRows
        /\ \A i \in SampledRows : index.psa[i] = At(index.sa, i)

\* a stride of two or more, a sampled row whose value is not its row number,
\* and a row that is not sampled
C19_Witness ==
    /\ pc = "sampled"
    /\ stride >= 2
    /\ \E i \in DOMAIN index.psa : index.psa[i] # i
    /\ SampledRows # 0..(Len(index.sa) - 1)
    /\ Cardinality(SampledRows) >= 2

(***************************************************************************)
(* Specification SpecBandedDriver: the index, the seeds of a read and the  *)
(* banded driver, and the claim on what the driver returns.                *)
(***************************************************************************)
NextBandedDriver == BuildIndex \/ GenerateSeeds \/ ExtendBanded

SpecBandedDriver == InitSeed /\ [][NextBandedDriver]_vars

\* the first candidate, in iteration order, that has the largest score
WinnerIndex ==
    LET c == Candidates
        score == [x \in 1..Len(c) |-> CandidateScore(c[x])]
    IN  CHOOSE x \in 1..Len(c) :
            /\ \A y \in 1..Len(c) : score[y] <= score[x]
            /\ \A y \in 1..(x - 1) : score[y] < score[x]

Winner == Candidates[WinnerIndex]

\* the window R[p-i : p-i+m] of an in-range candidate <<i, p>>
Window(c) == SubSeq(ref, c[2] - c[1] + 1, c[2] - c[1] + ReadLen)

\* C20: compute_max_seed returns the position p of the winning seed hit
\* (i, p), and for an in-range winner the aligned strings it returns are an
\* alignment of the window R[p-i : p-i+m] and the read: aligned_ref without
\* its gaps is the window, aligned_read without its gaps is the read.
C20_ReturnsWinnerAndItsWindow ==
    (pc = "extended" /\ Len(Candidates) > 0) =>
        LET w == Winner
        IN  ~OutOfReference(w) =>
                /\ ~best.isNone /\ ~best.raised
                /\ best.idx = w[2]
                /\ Len(best.s_align) = Len(best.t_align)
                /\ StripGaps(best.s_align) = Window(w)
                /\ StripGaps(best.t_align) = read

\* an in-range winner at a seed offset of one or more that is not the first
\* candidate, with a gap in the returned alignment
C20_Witness ==
    /\ pc = "extended" /\ Len(Candidates) > 0 /\ ~OutOfReference(Winner)
    /\ Winner[1] >= 1
    /\ WinnerIndex >= 2
    /\ best.idx = Winner[2]
    /\ Gap \in SeqToSet(best.s_align)

(***************************************************************************)
(* Specification SpecWalk: the loop "while True" of                        *)
(* compute_idxes_from_top_bot, one iteration per step, from any row of the *)
(* index.  idxes holds the rows the walk has visited: its first entry is   *)
(* the start row i, its last entry the current p, and plus_count is the    *)
(* number of entries after the first.  A loop that goes on is cut after    *)
(* len(bwt) + 1 iterations.                                                *)
(***************************************************************************)
WalkRow == idxes[Len(idxes)]
PlusCount == Len(idxes) - 1

\* p = i; plus_count = 0
StartWalk ==
    /\ pc = "ready"
    /\ \E i \in 0..(Len(index.bwt) - 1) : idxes' = <<i>>
    /\ pc' = "walking"
    /\ UNCHANGED <<ref, stride, index, pattern, interval, read, klen, seeds,
                   scoring, best, cigar, s, t, banded, traced, affine>>

\* one iteration: the LF step, plus_count += 1, break when p is a key
WalkStep ==
    /\ pc = "walking"
    /\ PlusCount <= Len(index.bwt)
    /\ LET p == lf_step(index.bwt, index.ranks, index.first_occurrences, WalkRow)
       IN  /\ idxes' = Append(idxes, p)
           /\ pc' = IF p \in DOMAIN index.psa THEN "walked" ELSE "walking"
    /\ UNCHANGED <<ref, stride, index, pattern, interval, read, klen, seeds,
                   scoring, best, cigar, s, t, banded, traced, affine>>

NextWalk == BuildIndex \/ StartWalk \/ WalkStep

SpecWalk == InitIndex /\ [][NextWalk]_vars /\ WF_vars(WalkStep)

\* the row whose suffix array value is v
RowOf(v) == CHOOSE r \in 0..(Len(index.sa) - 1) : At(index.sa, r) = v

\* every step taken so far went from a row p to the row of (SA[p] - 1) mod n
StepsGoToPrecedingSuffix ==
    \A x \in 1..(Len(idxes) - 1) :
        idxes[x + 1] = RowOf((At(index.sa, idxes[x]) - 1) % Len(index.sa))

\* C21: for every index of a non-empty reference, every stride K >= 1 and
\* every row r in [0, n), the LF walk started at r ends after at most n steps,
\* at a key of the partial suffix array, and every step goes from a row p to
\* the row whose suffix array value is (SA[p] - 1) mod n.
C21_WalkEndsWithinNSteps ==
    /\ [](pc \in {"walking", "walked"} =>
            /\ PlusCount <= Len(index.bwt)
            /\ StepsGoToPrecedingSuffix
            /\ pc = "walked" => WalkRow \in DOMAIN index.psa)
    /\ (pc = "walking" ~> pc = "walked")

\* a walk of exactly n steps, n >= 3, that ended at a key
C21_Witness ==
    /\ pc = "walked"
    /\ Len(index.bwt) >= 3
    /\ PlusCount = Len(index.bwt)
    /\ WalkRow \in DOMAIN index.psa

(***************************************************************************)
(* Claim on the score of AffineAlignment (specification SpecAlign).        *)
(***************************************************************************)
\* the class of column x of an aligned pair: a gap in aligned_s, a gap in
\* aligned_t, or a pair of characters
GapClass(x_s, x_t) ==
    IF x_s = Gap THEN "gap_s" ELSE IF x_t = Gap THEN "gap_t" ELSE "pair"

\* the affine-gap score of columns x.. of the pair: mr for a match, -mmp for a
\* mismatch, -go for the first column of a gap run and -ge for each further one
RECURSIVE AffinePairScore(_, _, _, _)
AffinePairScore(a_s, a_t, x, prev) ==
    IF x > Len(a_s) THEN 0
    ELSE LET class == GapClass(a_s[x], a_t[x])
             here == IF class = "pair"
                     THEN (IF a_s[x] = a_t[x] THEN scoring.mr
                           ELSE 0 - scoring.mmp)
                     ELSE IF class = prev THEN 0 - scoring.ge
                     ELSE 0 - scoring.go
         IN  here + AffinePairScore(a_s, a_t, x + 1, class)

\* C22: for all s, t (one of them possibly empty) and 0 <= ge <= go, the
\* score AffineAlignment returns is the affine-gap score of the aligned pair
\* it returns; a string of length i >= 1 against the empty string gives
\* -go - (i-1)*ge.
C22_AffineScoreIsPairScore ==
    (pc = "affine" /\ scoring.ge <= scoring.go) =>
        /\ ~affine.raised
        /\ Len(affine.s_align) = Len(affine.t_align)
        /\ affine.score = AffinePairScore(affine.s_align, affine.t_align, 1, "pair")

====
